---- MODULE Spec2Model ----
(***************************************************************************)
(* A model of assets/js/shared-scripts.js: the shared AppState record and  *)
(* the controllers that work on it (copy buttons, quizzes, calculators)    *)
(* together with the utilities validateNumericInput and debounce.          *)
(*                                                                         *)
(* Each controller has a specification of its own (SpecQuiz, SpecCopy,     *)
(* SpecCalc, SpecDebounce, SpecValidate); the variables of the other       *)
(* controllers stay at their initial value in it.                          *)
(***************************************************************************)
EXTENDS Integers, Sequences, FiniteSets, TLC

VARIABLES
    page,        \* the quiz containers of the document, in document order (static markup)
    quizInits,   \* how many times initializeQuizzes has run (= click listeners per element)
    quizScores,  \* AppState.quizScores: quizId -> [total, correct, answered]
    quizDom,     \* per container: dataset.quizId, classes, styles, injected panels
    quizLog,     \* history: what updateQuizScore / checkQuizCompletion / grading did
    clipboardApi,   \* whether navigator.clipboard exists on this page
    copyBtns,       \* per code block: the injected .copy-btn (innerHTML, class, style, dataset.id)
    copiedButtons,  \* AppState.copiedButtons
    writesPending,  \* per code block: copyCodeToClipboard calls awaiting writeText
    copyTimers,     \* the pending setTimeout(..., 2000) callbacks, in the order they will run
    copyLog,        \* history: the last copy activation that completed
    copyBlocks,     \* per code block: how many .code-header and .copy-btn elements it
                    \* holds, and how many click listeners its first .copy-btn has
    copyInits,      \* how many times initializeCopyButtons has run
    widget,       \* the .calculator-widget of the page (static markup)
    calcInits,    \* how many times initializeCalculators has run (= listeners per element)
    window,       \* the global scope: formula name -> registered formula
    calcValues,   \* input.value of each .calculator-input, by field name
    calcDom,      \* the result elements: text, colour, interpretation, "updated" class
    calcTimers,   \* pending setTimeout(..., 500) callbacks that remove "updated"
    calcLog,      \* history: the last run of handleCalculatorInput, and whether the
                  \* widget's formula was registered at the last initializeCalculators
    now,          \* debounce: the time, in ticks
    timers,       \* debounce: the timers set and not yet run or cleared: [id, due, args]
    timeout,      \* debounce: the closure's `timeout` handle (0: undefined)
    debLog,       \* debounce: the invocations of the wrapper and the calls of func, in order
    valInput,     \* validateNumericInput: the arguments (value, options)
    valResult,    \* validateNumericInput: <<>> before the call, <<result>> after it
    fnArgs,       \* calculator formulas: the three arguments of a call
    fnReturned,   \* calculator formulas: [fn |-> "", ...] before the call, then the function and its result
    readyState,   \* page load: document.readyState
    scriptRun,    \* page load: whether the script's top level has run
    readyListeners,  \* page load: DOMContentLoaded listeners registered for initializeApp
    signalled,    \* page load: whether DOMContentLoaded has been dispatched
    appCalls,     \* page load: the controllers invoked so far, in order
    appClicks,    \* page load: user events so far on a code block, a quiz and a calculator
    appRuns,      \* page load: handler runs so far of each of the three controllers
    txBlock,      \* copied text: the .code-block (nested code element or not, its code text)
    txApi,        \* copied text: whether navigator.clipboard exists
    txLabel,      \* copied text: the text of the block's copy button
    txPhase,      \* copied text: "idle", "pending" (awaiting writeText) or "done"
    txPrimary,    \* copied text: <<>>, or <<the text the primary path computed for writeText>>
    txField,      \* copied text: the temporary textarea: whether created, its value, whether in the document
    txClipboard   \* copied text: <<>>, or <<the text on the system clipboard>>

quizVars == <<page, quizInits, quizScores, quizDom, quizLog>>
copyVars == <<clipboardApi, copyBtns, copiedButtons, writesPending, copyTimers, copyLog,
              copyBlocks, copyInits>>

calcVars == <<widget, calcInits, window, calcValues, calcDom, calcTimers, calcLog>>

debVars == <<now, timers, timeout, debLog>>
valVars == <<valInput, valResult>>
fnVars == <<fnArgs, fnReturned>>
appVars == <<readyState, scriptRun, readyListeners, signalled, appCalls, appClicks, appRuns>>

txVars == <<txBlock, txApi, txLabel, txPhase, txPrimary, txField, txClipboard>>

vars == <<quizVars, copyVars, calcVars, debVars, valVars, fnVars, appVars, txVars>>

\* what an action of one controller leaves alone
notQuizVars == <<copyVars, calcVars, debVars, valVars, fnVars, appVars, txVars>>
notCopyVars == <<quizVars, calcVars, debVars, valVars, fnVars, appVars, txVars>>
notCalcVars == <<quizVars, copyVars, debVars, valVars, fnVars, appVars, txVars>>
notDebVars == <<quizVars, copyVars, calcVars, valVars, fnVars, appVars, txVars>>
notValVars == <<quizVars, copyVars, calcVars, debVars, fnVars, appVars, txVars>>
notFnVars == <<quizVars, copyVars, calcVars, debVars, valVars, appVars, txVars>>
notAppVars == <<quizVars, copyVars, calcVars, debVars, valVars, fnVars, txVars>>
notTxVars == <<quizVars, copyVars, calcVars, debVars, valVars, fnVars, appVars>>

----------------------------------------------------------------------------
(* Bounds *)

\* longest text a user types into a quiz input, and longest expected answer
MaxLen == 2
\* how many times initializeQuizzes may run on the page
MaxInits == 2
\* code blocks on the page
NumBlocks == 2
\* clipboard writes that may be awaiting their result at once
MaxPending == 2
\* deferred copy-button callbacks that may be pending at once
MaxTimers == 3
\* "updated" callbacks of a calculator that may be pending at once
MaxCalcTimers == 2
\* debounce: the quiet period `wait` in ticks, the last tick of the clock,
\* the invocations of the wrapper, and the argument values 1..MaxArg
Wait == 3
MaxTime == 8
MaxInvocations == 3
MaxArg == 2
\* validateNumericInput: the longest value string
MaxDigits == 3
\* calculator formulas: arguments are the halves between -MaxNum and MaxNum,
\* the confidence levels and the calls of the documented examples
MaxNum == 3
\* page load: user events per kind of element
MaxClicks == 2

----------------------------------------------------------------------------
(* Strings are sequences of one-character strings. *)

Chars == {"a", "A", " "}

RECURSIVE StringsUpTo(_)
StringsUpTo(n) ==
    IF n = 0 THEN {<<>>}
    ELSE LET shorter == StringsUpTo(n - 1)
         IN  shorter \cup {Append(s, ch) : s \in shorter, ch \in Chars}

\* String.prototype.toLowerCase
LowerChar(ch) == IF ch = "A" THEN "a" ELSE ch
ToLowerCase(s) == [k \in 1..Len(s) |-> LowerChar(s[k])]

\* String.prototype.trim
RECURSIVE TrimStart(_)
TrimStart(s) == IF s # <<>> /\ Head(s) = " " THEN TrimStart(Tail(s)) ELSE s
RECURSIVE TrimEnd(_)
TrimEnd(s) ==
    IF s # <<>> /\ s[Len(s)] = " " THEN TrimEnd(SubSeq(s, 1, Len(s) - 1)) ELSE s
Trim(s) == TrimEnd(TrimStart(s))

\* f with the count kept under key k raised by one
Bump(f, k) == IF k \in DOMAIN f THEN [f EXCEPT ![k] = @ + 1] ELSE f @@ (k :> 1)
CountOf(f, k) == IF k \in DOMAIN f THEN f[k] ELSE 0

----------------------------------------------------------------------------
(* The markup the quiz controller consumes. *)

\* a .quiz-option: the data-question-id of its closest .quiz-question-group
\* ("" when there is none), its closest .quiz-options wrapper (0 when there
\* is none) and its data-correct attribute ("true", "false" or "absent")
Opt(g, w, cor) == [group |-> g, wrapper |-> w, correct |-> cor]
\* a .quiz-input: whether it carries data-correct-answer, that value, and
\* its data-question-id ("" when unset)
Inp(has, ans, qid) == [hasAnswer |-> has, answer |-> ans, questionId |-> qid]
\* a .quiz-container: its data-quiz-id in the markup ("" when unset), its
\* options and inputs in document order, whether it holds a .quiz-submit
\* and a .quiz-score element
Quiz(id, opts, inps, sub, score) ==
    [explicitId |-> id, options |-> opts, inputs |-> inps,
     hasSubmit |-> sub, hasScore |-> score]

ExpectedAnswers == StringsUpTo(MaxLen) \ {<<>>}

\* two grouped questions, each in a wrapper of its own
PageGrouped ==
    <<Quiz("", <<Opt("q1", 1, "true"), Opt("q1", 1, "false"),
                 Opt("q2", 2, "false"), Opt("q2", 2, "true")>>,
           <<>>, FALSE, TRUE)>>
\* one question without group or wrapper
PageUngrouped ==
    <<Quiz("", <<Opt("", 0, "true"), Opt("", 0, "false")>>, <<>>, FALSE, TRUE)>>
\* question q1 in a wrapper, question q2 without one
PageMixed ==
    <<Quiz("", <<Opt("q1", 1, "false"), Opt("q1", 1, "true"),
                 Opt("q2", 0, "true"), Opt("q2", 0, "false")>>,
           <<>>, FALSE, TRUE)>>
\* only the right option carries data-correct; plus a text question
PageText(e) ==
    <<Quiz("", <<Opt("q1", 1, "true"), Opt("q1", 1, "absent")>>,
           <<Inp(TRUE, e, "")>>, TRUE, TRUE)>>
\* an input without a usable expected answer (no attribute, or an empty one)
PageNoAnswer ==
    {<<Quiz("", <<>>, <<Inp(has, <<>>, "t1")>>, TRUE, FALSE)>> : has \in BOOLEAN}
\* a question whose options carry no data-correct at all
PageUnflagged ==
    <<Quiz("", <<Opt("q1", 1, "absent"), Opt("q1", 1, "absent")>>, <<>>, FALSE, TRUE)>>
\* two quizzes without identifiers
PageTwo ==
    <<Quiz("", <<Opt("q1", 1, "true"), Opt("q1", 1, "absent")>>, <<>>, FALSE, TRUE),
      Quiz("", <<Opt("q1", 1, "absent"), Opt("q1", 1, "true")>>, <<>>, FALSE, TRUE)>>
\* the first quiz is named "quiz-1" in the markup, the second has no name
PageNamed(e) ==
    <<Quiz("quiz-1", <<Opt("q1", 1, "true"), Opt("q1", 1, "absent")>>, <<>>, FALSE, TRUE),
      Quiz("", <<>>, <<Inp(TRUE, e, "t1")>>, TRUE, TRUE)>>

\* one question whose two options sit in a .quiz-options wrapper each
PageSplit ==
    <<Quiz("", <<Opt("q1", 1, "false"), Opt("q1", 2, "true")>>, <<>>, FALSE, TRUE)>>

Pages ==
    {PageGrouped, PageUngrouped, PageMixed, PageUnflagged, PageTwo, PageSplit}
        \cup PageNoAnswer
        \cup {PageText(e) : e \in ExpectedAnswers}
        \cup {PageNamed(e) : e \in ExpectedAnswers}

Containers == 1..Len(page)
OptionsOf(c) == 1..Len(page[c].options)

----------------------------------------------------------------------------
(* The quiz controller.  Its functions are state transformers on a record  *)
(* s = [scores, dom, log]: a click runs the handler once per listener.     *)
(* triggerConfetti only adds and removes decorative particles under        *)
(* document.body and touches nothing of this state; it is left out.        *)

\* `quiz-${index}`, with the zero-based index of the container
AutoId(c) == "quiz-" \o ToString(c - 1)

InitialDom(pg) ==
    [c \in 1..Len(pg) |->
        [quizId         |-> pg[c].explicitId,
         optClass       |-> [i \in 1..Len(pg[c].options) |-> {}],
         optPointer     |-> [i \in 1..Len(pg[c].options) |-> ""],
         inputClass     |-> {},
         inputStyle     |-> [borderColor |-> "", background |-> ""],
         inputDisabled  |-> FALSE,
         submitDisabled |-> FALSE,
         feedback       |-> "none",
         scoreLabel     |-> <<>>,
         celebration    |-> 0]]

InitialLog ==
    [updCalls   |-> <<>>,   \* <<quizId, questionId>> -> calls of updateQuizScore
     incTotal   |-> <<>>,   \* <<quizId, questionId>> -> increments of total
     incCorrect |-> <<>>,   \* <<quizId, questionId>> -> increments of correct
     fired      |-> {},     \* the celebrations shown: [quizId, container, correct]
     lastCheck  |-> <<>>,   \* the last checkQuizCompletion: <<[quizId, fired]>>
     lastGrade  |-> <<>>]   \* the last text grading: <<[user, expected, isCorrect]>>

NewScore == [total |-> 0, correct |-> 0, answered |-> {}]

\* document.querySelector(`[data-quiz-id="${quizId}"]`): the first match
FirstContainer(dom, quizId) ==
    CHOOSE c \in DOMAIN dom :
        /\ dom[c].quizId = quizId
        /\ \A d \in DOMAIN dom : dom[d].quizId = quizId => c <= d

\* document.querySelector(`[data-quiz-id="${quizId}"] .quiz-score`)
ScoreDisplays(dom, quizId) ==
    {c \in DOMAIN dom : dom[c].quizId = quizId /\ page[c].hasScore}

\* '.quiz-option[data-correct], .quiz-input[data-correct-answer]' in container c
TotalQuestions(c) ==
    Cardinality({i \in OptionsOf(c) : page[c].options[i].correct # "absent"})
        + Cardinality({k \in 1..Len(page[c].inputs) : page[c].inputs[k].hasAnswer})

ShowQuizFeedback(s, c, isCorrect) ==
    [s EXCEPT !.dom[c].feedback = IF isCorrect THEN "correct" ELSE "incorrect"]

ShowCelebration_Append(s, c) ==
    [s EXCEPT !.dom[c].celebration = @ + 1]

\* the first existing .quiz-celebration of the container is removed, one is appended
ShowCelebration(s, c) ==
    [s EXCEPT !.dom[c].celebration = (IF @ > 0 THEN @ - 1 ELSE 0) + 1]

CompletionReached_NoPositive(correct, totalQuestions) == correct = totalQuestions

CompletionReached(correct, totalQuestions) ==
    correct = totalQuestions /\ correct > 0

CheckQuizCompletion(s, quizId) ==
    LET scoreData     == s.scores[quizId]
        quizContainer == FirstContainer(s.dom, quizId)
        fires         == CompletionReached(scoreData.correct, TotalQuestions(quizContainer))
        s1 == [s EXCEPT !.log.lastCheck = <<[quizId |-> quizId, fired |-> fires]>>]
    IN  IF fires
        THEN ShowCelebration(
                 [s1 EXCEPT !.log.fired = @ \cup {[quizId    |-> quizId,
                                                   container |-> quizContainer,
                                                   correct   |-> scoreData.correct]}],
                 quizContainer)
        ELSE s1

CountsQuestion_Always(scoreData, questionId) == TRUE

\* "Only count each question once"
CountsQuestion(scoreData, questionId) == questionId \notin scoreData.answered

UpdateQuizScore(s, quizId, questionId, isCorrect) ==
    LET scoreData == s.scores[quizId]
        key       == <<quizId, questionId>>
        counted   == CountsQuestion(scoreData, questionId)
        newData   ==
            IF counted
            THEN [total    |-> scoreData.total + 1,
                  correct  |-> scoreData.correct + (IF isCorrect THEN 1 ELSE 0),
                  answered |-> scoreData.answered \cup {questionId}]
            ELSE scoreData
        s1 == [s EXCEPT
                 !.scores[quizId] = newData,
                 !.log.updCalls   = Bump(@, key),
                 !.log.incTotal   = IF counted THEN Bump(@, key) ELSE @,
                 !.log.incCorrect = IF counted /\ isCorrect THEN Bump(@, key) ELSE @]
        shown == ScoreDisplays(s.dom, quizId)
        s2 == IF shown = {} THEN s1
              ELSE LET d == CHOOSE c \in shown : \A e \in shown : c <= e
                   IN  [s1 EXCEPT !.dom[d].scoreLabel =
                           <<[correct |-> newData.correct,
                              total   |-> newData.total,
                              color   |-> IF newData.correct = newData.total
                                          THEN "#10b981" ELSE "#3b82f6"]>>]
    IN  CheckQuizCompletion(s2, quizId)

\* closest('.quiz-options')?.querySelectorAll('.quiz-option')
\*   || quizContainer.querySelectorAll('.quiz-option')
AllOptions(c, i) ==
    LET w == page[c].options[i].wrapper
    IN  IF w # 0
        THEN {j \in OptionsOf(c) : page[c].options[j].wrapper = w}
        ELSE OptionsOf(c)

HandleQuizAnswer(s, c, i) ==
    LET quizId     == s.dom[c].quizId
        o          == page[c].options[i]
        questionId == IF o.group # "" THEN o.group ELSE "default"
        isCorrect  == o.correct = "true"
        allOptions == AllOptions(c, i)
        right      == {j \in allOptions : page[c].options[j].correct = "true"}
        marked     ==
            [j \in OptionsOf(c) |->
                LET cleared == IF j \in allOptions
                               THEN s.dom[c].optClass[j] \ {"correct", "incorrect", "selected"}
                               ELSE s.dom[c].optClass[j]
                    chosen  == IF j = i
                               THEN cleared \cup {"selected"}
                                        \cup {IF isCorrect THEN "correct" ELSE "incorrect"}
                               ELSE cleared
                IN  IF ~isCorrect /\ j \in right /\ \A k \in right : j <= k
                    THEN chosen \cup {"correct"}
                    ELSE chosen]
        s1 == [s EXCEPT !.dom[c].optClass = marked]
        s2 == UpdateQuizScore(ShowQuizFeedback(s1, c, isCorrect), quizId, questionId, isCorrect)
    IN  [s2 EXCEPT !.dom[c].optPointer =
            [j \in OptionsOf(c) |-> IF j \in allOptions THEN "none" ELSE @[j]]]

\* userAnswer === correctAnswer.toLowerCase(), userAnswer = input.value.trim().toLowerCase()
GradeText(value, correctAnswer) ==
    ToLowerCase(Trim(value)) = ToLowerCase(correctAnswer)

HandleQuizSubmit(s, c, value) ==
    LET quizId == s.dom[c].quizId
        inputs == page[c].inputs
    IN  IF inputs = <<>> \/ ~inputs[1].hasAnswer \/ inputs[1].answer = <<>>
        THEN s
        ELSE
          LET input         == inputs[1]
              correctAnswer == input.answer
              questionId    == IF input.questionId # "" THEN input.questionId
                               ELSE "input-question"
              isCorrect     == GradeText(value, correctAnswer)
              s1 == [s EXCEPT
                       !.dom[c].inputClass = @ \cup {IF isCorrect THEN "correct" ELSE "incorrect"},
                       !.dom[c].inputStyle =
                           IF isCorrect
                           THEN [borderColor |-> "#10b981",
                                 background  |-> "rgba(16, 185, 129, 0.1)"]
                           ELSE [borderColor |-> "#ef4444",
                                 background  |-> "rgba(239, 68, 68, 0.1)"],
                       !.log.lastGrade = <<[user      |-> value,
                                            expected  |-> correctAnswer,
                                            isCorrect |-> isCorrect]>>]
              s2 == UpdateQuizScore(ShowQuizFeedback(s1, c, isCorrect),
                                    quizId, questionId, isCorrect)
          IN  [s2 EXCEPT !.dom[c].inputDisabled  = TRUE,
                         !.dom[c].submitDisabled = page[c].hasSubmit \/ @]

\* one click runs every listener that initializeQuizzes attached
RECURSIVE AnswerListeners(_, _, _, _)
AnswerListeners(s, c, i, n) ==
    IF n = 0 THEN s ELSE AnswerListeners(HandleQuizAnswer(s, c, i), c, i, n - 1)

RECURSIVE SubmitListeners(_, _, _, _)
SubmitListeners(s, c, value, n) ==
    IF n = 0 THEN s ELSE SubmitListeners(HandleQuizSubmit(s, c, value), c, value, n - 1)

QuizState == [scores |-> quizScores, dom |-> quizDom, log |-> quizLog]

SetQuizState(s) ==
    /\ quizScores' = s.scores
    /\ quizDom' = s.dom
    /\ quizLog' = s.log

InitQuiz ==
    /\ page \in Pages
    /\ quizInits = 0
    /\ quizScores = <<>>
    /\ quizDom = InitialDom(page)
    /\ quizLog = InitialLog

HasScoreRecord_Never(scores, quizId) == FALSE

\* AppState.quizScores[quizId] is set
HasScoreRecord(scores, quizId) == quizId \in DOMAIN scores

InitializeQuizzes ==
    /\ quizInits < MaxInits
    /\ LET ids == [c \in Containers |->
                     IF quizDom[c].quizId # "" THEN quizDom[c].quizId ELSE AutoId(c)]
           all == {ids[c] : c \in Containers}
       IN  /\ quizDom' = [c \in Containers |-> [quizDom[c] EXCEPT !.quizId = ids[c]]]
           /\ quizScores' = [q \in all \cup DOMAIN quizScores |->
                                IF HasScoreRecord(quizScores, q) THEN quizScores[q]
                                ELSE NewScore]
    /\ quizInits' = quizInits + 1
    /\ UNCHANGED <<page, quizLog, notQuizVars>>

\* a pointer click on option i of container c
ClickOption ==
    \E c \in Containers : \E i \in OptionsOf(c) :
        /\ quizInits >= 1
        /\ quizDom[c].optPointer[i] # "none"
        /\ SetQuizState(AnswerListeners(QuizState, c, i, quizInits))
        /\ UNCHANGED <<page, quizInits, notQuizVars>>

\* a click on the first .quiz-submit of container c, with `value` in the input
ClickSubmit ==
    \E c \in Containers : \E value \in StringsUpTo(MaxLen) :
        /\ quizInits >= 1
        /\ page[c].hasSubmit
        /\ ~quizDom[c].submitDisabled
        /\ SetQuizState(SubmitListeners(QuizState, c, value, quizInits))
        /\ UNCHANGED <<page, quizInits, notQuizVars>>

NextQuiz ==
    \/ InitializeQuizzes
    \/ ClickOption
    \/ ClickSubmit

IdleQuiz ==
    /\ page = <<>>
    /\ quizInits = 0
    /\ quizScores = <<>>
    /\ quizDom = <<>>
    /\ quizLog = InitialLog

----------------------------------------------------------------------------
(* The copy-button controller.  Its functions are state transformers on a  *)
(* record s = [btns, copied, timers].  Every deferred callback has the     *)
(* same delay (2000 ms), so the callbacks run in the order they were set.  *)

Blocks == 1..NumBlocks

\* what button.innerHTML can hold
IconCopyHTML == "<svg copy/><span class=copy-text>Copy</span>"
CopiedHTML   == "<svg check/><span class=copy-text>Copied!</span>"
FailedHTML   == "<span class=copy-text>Failed</span>"
PlainCopyHTML == "<span class=copy-text>Copy</span>"

CopiedBackground == "linear-gradient(135deg, #10b981 0%, #059669 100%)"

\* the text of the button's .copy-text element
Label(html) ==
    CASE html = IconCopyHTML  -> "Copy"
      [] html = CopiedHTML    -> "Copied!"
      [] html = FailedHTML    -> "Failed"
      [] html = PlainCopyHTML -> "Copy"

\* the button initializeCopyButtons creates (absent before it has run)
NoButton == [present |-> FALSE, innerHTML |-> "", copied |-> FALSE,
             background |-> "", id |-> 0]
NewButton == [present |-> TRUE, innerHTML |-> IconCopyHTML, copied |-> FALSE,
              background |-> "", id |-> 0]

\* Math.random().toString(36): a fresh identifier, one per button (0: dataset.id unset)
RandomId(b) == b

\* what document.execCommand('copy') can do: return true, return false, throw
ExecOutcomes == {"true", "false", "throws"}

\* "Prevent multiple simultaneous copies"
AlreadyCopied(copied, buttonId) == buttonId \in copied

ShowCopySuccess(s, b) ==
    LET button       == s.btns[b]
        originalHTML == button.innerHTML
        buttonId     == IF button.id # 0 THEN button.id ELSE RandomId(b)
        s1 == [s EXCEPT !.btns[b].id = buttonId]
    IN  IF AlreadyCopied(s.copied, buttonId)
        THEN s1
        ELSE [s1 EXCEPT
                !.copied = @ \cup {buttonId},
                !.btns[b].copied = TRUE,
                !.btns[b].innerHTML = CopiedHTML,
                !.btns[b].background = CopiedBackground,
                !.timers = Append(@, [kind |-> "revert", button |-> b,
                                      html |-> originalHTML, buttonId |-> buttonId,
                                      before |-> Label(originalHTML)])]

FallbackCopyToClipboard(s, b, outcome) ==
    IF outcome = "throws"
    THEN [s EXCEPT
            !.btns[b].innerHTML = FailedHTML,
            !.timers = Append(@, [kind |-> "failed", button |-> b,
                                  html |-> PlainCopyHTML, buttonId |-> 0,
                                  before |-> Label(s.btns[b].innerHTML)])]
    ELSE ShowCopySuccess(s, b)

\* the callback of a timer: the revert of showCopySuccess, or of the failure
RunTimer(s, tm) ==
    IF tm.kind = "revert"
    THEN [s EXCEPT !.btns[tm.button].copied = FALSE,
                   !.btns[tm.button].innerHTML = tm.html,
                   !.btns[tm.button].background = "",
                   !.copied = @ \ {tm.buttonId}]
    ELSE [s EXCEPT !.btns[tm.button].innerHTML = tm.html]

CopyState == [btns |-> copyBtns, copied |-> copiedButtons, timers |-> copyTimers]

SetCopyState(s) ==
    /\ copyBtns' = s.btns
    /\ copiedButtons' = s.copied
    /\ copyTimers' = s.timers

\* the record of an activation of button b that completed with `outcome`
Completed(b, outcome) ==
    [button  |-> b,
     outcome |-> outcome,
     before  |-> Label(copyBtns[b].innerHTML),
     inSet   |-> copyBtns[b].id # 0 /\ copyBtns[b].id \in copiedButtons,
     tick    |-> 1 - copyLog.tick]

NoActivation == [button |-> 0, outcome |-> "", before |-> "", inSet |-> FALSE, tick |-> 0]

IdleCopy ==
    /\ clipboardApi = TRUE
    /\ copyBlocks = <<>>
    /\ copyInits = 0
    /\ copyBtns = <<>>
    /\ copiedButtons = {}
    /\ writesPending = <<>>
    /\ copyTimers = <<>>
    /\ copyLog = NoActivation

\* a .code-block of the markup comes with or without a .code-header, and
\* without a .copy-btn
InitCopy ==
    /\ clipboardApi \in BOOLEAN
    /\ copyBlocks \in [Blocks -> [headers : {0, 1}, buttons : {0}, listeners : {0}]]
    /\ copyInits = 0
    /\ copyBtns = [b \in Blocks |-> NoButton]
    /\ copiedButtons = {}
    /\ writesPending = [b \in Blocks |-> 0]
    /\ copyTimers = <<>>
    /\ copyLog = NoActivation

HasCopyButton_Never(block) == FALSE

\* block.querySelector('.copy-btn')
HasCopyButton(block) == block.buttons > 0

\* each block that lacks a .copy-btn gets one, with a click listener, in
\* its .code-header (created when the block has none)
InitializeCopyButtons ==
    /\ copyInits < MaxInits
    /\ copyInits' = copyInits + 1
    /\ copyBlocks' = [b \in Blocks |->
                         IF HasCopyButton(copyBlocks[b]) THEN copyBlocks[b]
                         ELSE [headers |-> IF copyBlocks[b].headers = 0 THEN 1
                                           ELSE copyBlocks[b].headers,
                               buttons |-> copyBlocks[b].buttons + 1,
                               listeners |-> IF copyBlocks[b].buttons = 0 THEN 1
                                             ELSE copyBlocks[b].listeners]]
    /\ copyBtns' = [b \in Blocks |->
                       IF HasCopyButton(copyBlocks[b]) THEN copyBtns[b] ELSE NewButton]
    /\ UNCHANGED <<clipboardApi, copiedButtons, writesPending, copyTimers, copyLog, notCopyVars>>

\* a click on the button of block b runs its one click listener:
\* copyCodeToClipboard up to its await.
\* Without navigator.clipboard the call throws at once and the fallback runs
\* in the same turn.
ClickCopy ==
    \E b \in Blocks :
        /\ copyBtns[b].present
        /\ copyBlocks[b].listeners = 1
        /\ IF clipboardApi
           THEN /\ writesPending[b] < MaxPending
                /\ writesPending' = [writesPending EXCEPT ![b] = @ + 1]
                /\ UNCHANGED <<copyBtns, copiedButtons, copyTimers, copyLog>>
           ELSE \E outcome \in ExecOutcomes :
                /\ Len(copyTimers) < MaxTimers
                /\ SetCopyState(FallbackCopyToClipboard(CopyState, b, outcome))
                /\ copyLog' = Completed(b, outcome)
                /\ UNCHANGED writesPending
        /\ UNCHANGED <<clipboardApi, copyBlocks, copyInits, notCopyVars>>

\* navigator.clipboard.writeText fulfils for a pending call of block b
WriteFulfilled ==
    \E b \in Blocks :
        /\ writesPending[b] > 0
        /\ Len(copyTimers) < MaxTimers
        /\ writesPending' = [writesPending EXCEPT ![b] = @ - 1]
        /\ SetCopyState(ShowCopySuccess(CopyState, b))
        /\ copyLog' = Completed(b, "fulfilled")
        /\ UNCHANGED <<clipboardApi, copyBlocks, copyInits, notCopyVars>>

\* navigator.clipboard.writeText rejects for a pending call of block b
WriteRejected ==
    \E b \in Blocks : \E outcome \in ExecOutcomes :
        /\ writesPending[b] > 0
        /\ Len(copyTimers) < MaxTimers
        /\ writesPending' = [writesPending EXCEPT ![b] = @ - 1]
        /\ SetCopyState(FallbackCopyToClipboard(CopyState, b, outcome))
        /\ copyLog' = Completed(b, outcome)
        /\ UNCHANGED <<clipboardApi, copyBlocks, copyInits, notCopyVars>>

\* the oldest pending deferred callback runs
CopyTimerFires ==
    /\ copyTimers # <<>>
    /\ SetCopyState(RunTimer([CopyState EXCEPT !.timers = Tail(@)], Head(copyTimers)))
    /\ UNCHANGED <<clipboardApi, writesPending, copyLog, copyBlocks, copyInits, notCopyVars>>

NextCopy ==
    \/ InitializeCopyButtons
    \/ ClickCopy
    \/ WriteFulfilled
    \/ WriteRejected
    \/ CopyTimerFires

----------------------------------------------------------------------------
(* Numbers.  A JavaScript number is NaN, +Infinity, -Infinity or a finite  *)
(* value kept as a reduced fraction n/d (d > 0), so that equal numbers are *)
(* equal records.  The sign of zero and binary rounding are not kept.      *)

Abs(a) == IF a < 0 THEN -a ELSE a

RECURSIVE GCD(_, _)
GCD(a, b) == IF b = 0 THEN a ELSE GCD(b, a % b)

NaN == [k |-> "nan", n |-> 0, d |-> 1]
Infinity(sign) == [k |-> "inf", n |-> sign, d |-> 1]
Fin(n, d) ==
    LET g == GCD(Abs(n), Abs(d))
        s == IF d < 0 THEN -1 ELSE 1
    IN  [k |-> "fin", n |-> (s * n) \div g, d |-> (s * d) \div g]
Whole(n) == [k |-> "fin", n |-> n, d |-> 1]

IsNaN(x) == x.k = "nan"
Sgn(x) == IF x.n > 0 THEN 1 ELSE IF x.n < 0 THEN -1 ELSE 0
\* the sign of a divisor or factor, a zero counting as +0
Sgn0(x) == IF x.n < 0 THEN -1 ELSE 1

Neg(x) == [x EXCEPT !.n = -x.n]

Add(x, y) ==
    CASE IsNaN(x) \/ IsNaN(y) -> NaN
      [] x.k = "inf" /\ y.k = "inf" -> IF x.n = y.n THEN x ELSE NaN
      [] x.k = "inf" -> x
      [] y.k = "inf" -> y
      [] OTHER -> Fin(x.n * y.d + y.n * x.d, x.d * y.d)
Sub(x, y) == Add(x, Neg(y))

Mul(x, y) ==
    CASE IsNaN(x) \/ IsNaN(y) -> NaN
      [] x.k = "inf" \/ y.k = "inf" ->
            IF Sgn(x) = 0 \/ Sgn(y) = 0 THEN NaN ELSE Infinity(Sgn(x) * Sgn(y))
      [] OTHER -> Fin(x.n * y.n, x.d * y.d)

Div(x, y) ==
    CASE IsNaN(x) \/ IsNaN(y) -> NaN
      [] x.k = "inf" /\ y.k = "inf" -> NaN
      [] x.k = "inf" -> Infinity(Sgn(x) * Sgn0(y))
      [] y.k = "inf" -> Whole(0)
      [] y.n = 0 -> IF x.n = 0 THEN NaN ELSE Infinity(Sgn(x))
      [] OTHER -> Fin(x.n * y.d, x.d * y.n)

\* x < y and x >= y; both are false when an operand is NaN
Lt(x, y) ==
    CASE IsNaN(x) \/ IsNaN(y) -> FALSE
      [] x.k = "inf" /\ y.k = "inf" -> x.n < y.n
      [] x.k = "inf" -> x.n < 0
      [] y.k = "inf" -> y.n > 0
      [] OTHER -> x.n * y.d < y.n * x.d
Ge(x, y) == ~IsNaN(x) /\ ~IsNaN(y) /\ ~Lt(x, y)

IsInteger(x) == x.k = "fin" /\ x.d = 1

\* Math.pow(x, e) for a whole exponent e
RECURSIVE PowNat(_, _)
PowNat(x, e) == IF e = 0 THEN Whole(1) ELSE Mul(x, PowNat(x, e - 1))
Pow(x, e) ==
    CASE IsNaN(e) -> NaN
      [] e.n = 0 -> Whole(1)
      [] e.n > 0 -> PowNat(x, e.n)
      [] OTHER -> Div(Whole(1), PowNat(x, -e.n))

\* parseFloat: optional white space, an optional sign, digits with at most
\* one decimal point; NaN when no digit is found.  What follows is ignored.
Digits == {"0", "1", "2", "3", "4", "5", "6", "7", "8", "9"}
DigitValue(ch) ==
    CASE ch = "0" -> 0 [] ch = "1" -> 1 [] ch = "2" -> 2 [] ch = "3" -> 3
      [] ch = "4" -> 4 [] ch = "5" -> 5 [] ch = "6" -> 6 [] ch = "7" -> 7
      [] ch = "8" -> 8 [] ch = "9" -> 9

\* the digits at the head of s: <<how many, their value>>
RECURSIVE DigitRun(_, _, _)
DigitRun(s, count, value) ==
    IF s # <<>> /\ Head(s) \in Digits
    THEN DigitRun(Tail(s), count + 1, 10 * value + DigitValue(Head(s)))
    ELSE <<count, value>>

RECURSIVE Pow10(_)
Pow10(k) == IF k = 0 THEN 1 ELSE 10 * Pow10(k - 1)

ParseFloat(str) ==
    LET s0     == TrimStart(str)
        signed == s0 # <<>> /\ Head(s0) \in {"-", "+"}
        sign   == IF s0 # <<>> /\ Head(s0) = "-" THEN -1 ELSE 1
        s1     == IF signed THEN Tail(s0) ELSE s0
        whole  == DigitRun(s1, 0, 0)
        s2     == SubSeq(s1, whole[1] + 1, Len(s1))
        frac   == IF s2 # <<>> /\ Head(s2) = "." THEN DigitRun(Tail(s2), 0, 0)
                  ELSE <<0, 0>>
    IN  IF whole[1] + frac[1] = 0 THEN NaN
        ELSE Fin(sign * (whole[2] * Pow10(frac[1]) + frac[2]), Pow10(frac[1]))

\* x rounded to `decimals` places, as a whole number of 10^-decimals (halves away from zero)
Scaled(x, decimals) ==
    LET p == Pow10(decimals)
        a == (2 * Abs(x.n) * p + x.d) \div (2 * x.d)
    IN  IF x.n < 0 THEN -a ELSE a

\* a formatted string: prefix, the number rounded to `decimals` places, suffix
Text(prefix, x, decimals, suffix) ==
    [prefix |-> prefix,
     number |-> IF x.k = "inf" THEN (IF x.n > 0 THEN "Infinity" ELSE "-Infinity")
                ELSE "fixed",
     scaled |-> IF x.k = "fin" THEN Scaled(x, decimals) ELSE 0,
     decimals |-> decimals, suffix |-> suffix]
NoText == [prefix |-> "", number |-> "", scaled |-> 0, decimals |-> 0, suffix |-> ""]

FormatNumber(num, decimals) ==
    IF IsNaN(num) THEN Text("", Whole(0), 2, "") ELSE Text("", num, decimals, "")
FormatPercentage(num) ==
    IF IsNaN(num) THEN Text("", Whole(0), 2, "%") ELSE Text("", num, 2, "%")
FormatCurrency(num) ==
    IF IsNaN(num) THEN Text("$", Whole(0), 2, "") ELSE Text("$", num, 2, "")

----------------------------------------------------------------------------
(* The calculator controller. *)

\* a .calculator-widget: data-calc-type and data-calc-function ("" when
\* unset), the names of its .calculator-input fields, and which of
\* .calculator-btn, .calculator-result, .calculator-result-value and
\* .calculator-additional-info it holds
Widget(type, function, fields, btn, result, value, info) ==
    [calcType |-> type, calcFunction |-> function, fields |-> fields,
     hasButton |-> btn, hasResult |-> result, hasValue |-> value, hasInfo |-> info]

BuiltInTypes == {"roi", "sharpe", "compound", "var"}

Widgets ==
    {Widget("roi", "", {"initial", "final"}, TRUE, TRUE, TRUE, TRUE),
     Widget("roi", "", {"initial", "final"}, TRUE, TRUE, FALSE, TRUE),
     Widget("sharpe", "", {"returns", "riskFree", "stdDev"}, TRUE, TRUE, TRUE, TRUE),
     Widget("compound", "", {"principal", "rate", "time"}, FALSE, TRUE, TRUE, FALSE),
     Widget("var", "", {"value", "confidence", "volatility"}, TRUE, FALSE, TRUE, TRUE)}
      \cup {Widget(type, function, {"a", "b"}, TRUE, TRUE, TRUE, TRUE) :
                type \in {"", "custom"}, function \in {"", "f", "g", "h"}}

\* what a user types into a field
Typed(name) ==
    CASE name = "initial"    -> {<<>>, <<"1", "0", "0">>, <<"-", "1", "0", "0">>}
      [] name = "final"      -> {<<>>, <<"1", "5", "0">>, <<"5", "0">>}
      [] name = "returns"    -> {<<>>, <<"1", "2">>, <<"2">>}
      [] name = "riskFree"   -> {<<>>, <<"2">>, <<"x">>}
      [] name = "stdDev"     -> {<<>>, <<"5">>, <<"1", "0">>, <<"-", "5">>, <<"2", ".", "5">>}
      [] name = "principal"  -> {<<>>, <<"1", "0", "0", "0">>}
      [] name = "rate"       -> {<<>>, <<"1", "0">>, <<"-", "1", "0">>}
      [] name = "time"       -> {<<>>, <<"2">>, <<"-", "1">>}
      [] name = "value"      -> {<<>>, <<"1", "0", "0", "0", "0">>}
      [] name = "confidence" -> {<<>>, <<"9", "0">>, <<"9", "5">>, <<"9", "9">>, <<"4", "2">>}
      [] name = "volatility" -> {<<>>, <<"0", ".", "0", "2">>, <<"-", "0", ".", "0", "2">>}
      [] OTHER               -> {<<>>, <<"1">>, <<"-", "2">>}

\* the formulas a module may pass to registerCalculator, and the names it may use
Formulas == {"sum", "void"}
FormulaNames == {"f", "g"}

\* window[name]
Global_Unbound(name) == "undefined"

Global(name) == IF name \in DOMAIN window THEN window[name] ELSE "undefined"

\* a result object; `undefined` is Undefined
Result(value, formatted, extra, isPositive, interpretation) ==
    [defined |-> TRUE, value |-> value, formatted |-> formatted, extra |-> extra,
     isPositive |-> isPositive, interpretation |-> interpretation]
Undefined ==
    [defined |-> FALSE, value |-> NaN, formatted |-> NoText, extra |-> NoText,
     isPositive |-> "undefined", interpretation |-> ""]

Bool(b) == IF b THEN "true" ELSE "false"

CalculateROI_OverFinal(initial, final) ==
    LET profit     == Sub(final, initial)
        roiPercent == Mul(Div(profit, final), Whole(100))
    IN  Result(roiPercent, FormatPercentage(roiPercent), FormatCurrency(profit),
               Bool(Ge(roiPercent, Whole(0))), "")

CalculateROI(initial, final) ==
    LET profit     == Sub(final, initial)
        roiPercent == Mul(Div(profit, initial), Whole(100))
    IN  Result(roiPercent, FormatPercentage(roiPercent), FormatCurrency(profit),
               Bool(Ge(roiPercent, Whole(0))), "")

GetSharpeInterpretation(sharpe) ==
    CASE Lt(sharpe, Whole(0)) -> "Poor - Returns below risk-free rate"
      [] Lt(sharpe, Whole(1)) -> "Acceptable - Moderate risk-adjusted returns"
      [] Lt(sharpe, Whole(2)) -> "Good - Strong risk-adjusted returns"
      [] Lt(sharpe, Whole(3)) -> "Very Good - Excellent risk-adjusted returns"
      [] OTHER                -> "Exceptional - Outstanding risk-adjusted returns"

CalculateSharpeRatio(returns, riskFree, stdDev) ==
    LET sharpe == Div(Sub(returns, riskFree), stdDev)
    IN  Result(sharpe, FormatNumber(sharpe, 3), NoText,
               Bool(Ge(sharpe, Whole(0))), GetSharpeInterpretation(sharpe))

CalculateCompoundGrowth(principal, rate, time) ==
    LET finalAmount == Mul(principal, Pow(Add(Whole(1), Div(rate, Whole(100))), time))
        totalGain   == Sub(finalAmount, principal)
    IN  Result(finalAmount, FormatCurrency(finalAmount), FormatCurrency(totalGain),
               Bool(Ge(totalGain, Whole(0))), "")

ZScore_Fallback90(confidence) ==
    CASE confidence = Whole(90) -> Fin(128, 100)
      [] confidence = Whole(95) -> Fin(1645, 1000)
      [] confidence = Whole(99) -> Fin(233, 100)
      [] OTHER                  -> Fin(128, 100)

\* zScores[confidence] || 1.645
ZScore(confidence) ==
    CASE confidence = Whole(90) -> Fin(128, 100)
      [] confidence = Whole(95) -> Fin(1645, 1000)
      [] confidence = Whole(99) -> Fin(233, 100)
      [] OTHER                  -> Fin(1645, 1000)

CalculateVaR(value, confidence, volatility) ==
    LET zScore == ZScore(confidence)
        var95  == Mul(Mul(value, volatility), zScore)
    IN  Result(var95, FormatCurrency(var95),
               FormatPercentage(Mul(Div(var95, value), Whole(100))), "false", "")

\* a registered formula applied to the inputs
ApplyFormula(formula, inputs) ==
    IF formula = "sum"
    THEN Result(Add(inputs["a"], inputs["b"]), NoText, NoText, "undefined", "")
    ELSE Undefined

HasResult_Always(result) == TRUE

\* `if (!result) return;` negated
HasResult(result) == result.defined

\* `parseFloat(input.value) || 0` for every field
ReadInputs(values) ==
    [name \in DOMAIN values |->
        LET x == ParseFloat(values[name])
        IN  IF IsNaN(x) \/ x = Whole(0) THEN Whole(0) ELSE x]

\* inputs.name: undefined, NaN in arithmetic, when the widget has no such field
Field(inputs, name) == IF name \in DOMAIN inputs THEN inputs[name] ELSE NaN

Compute(calculator, inputs) ==
    CASE calculator.calcType = "roi" ->
            CalculateROI(Field(inputs, "initial"), Field(inputs, "final"))
      [] calculator.calcType = "sharpe" ->
            CalculateSharpeRatio(Field(inputs, "returns"), Field(inputs, "riskFree"),
                                 Field(inputs, "stdDev"))
      [] calculator.calcType = "compound" ->
            CalculateCompoundGrowth(Field(inputs, "principal"), Field(inputs, "rate"),
                                    Field(inputs, "time"))
      [] calculator.calcType = "var" ->
            CalculateVaR(Field(inputs, "value"), Field(inputs, "confidence"),
                         Field(inputs, "volatility"))
      [] OTHER ->
            LET calcFunction == calculator.calcFunction
            IN  IF calcFunction # "" /\ Global(calcFunction) # "undefined"
                THEN ApplyFormula(Global(calcFunction), inputs)
                ELSE Undefined

\* on s = [dom, timers]
DisplayCalculatorResult(s, calculator, result) ==
    IF ~HasResult(result) \/ ~calculator.hasValue
    THEN s
    ELSE [s EXCEPT
            !.dom.text  = IF result.formatted # NoText THEN result.formatted
                          ELSE FormatNumber(result.value, 2),
            !.dom.color = IF result.isPositive = "undefined" THEN @
                          ELSE IF result.isPositive = "true" THEN "#10b981" ELSE "#ef4444",
            !.dom.info  = IF calculator.hasInfo /\ result.interpretation # ""
                          THEN result.interpretation ELSE @,
            !.dom.updated = calculator.hasResult \/ @,
            !.timers = IF calculator.hasResult THEN @ + 1 ELSE @]

HandleCalculatorInput(s, calculator, values) ==
    DisplayCalculatorResult(s, calculator, Compute(calculator, ReadInputs(values)))

\* one event runs every listener that initializeCalculators attached
RECURSIVE CalculatorListeners(_, _, _, _)
CalculatorListeners(s, calculator, values, n) ==
    IF n = 0 THEN s
    ELSE CalculatorListeners(HandleCalculatorInput(s, calculator, values),
                             calculator, values, n - 1)

NoDisplay == [text |-> NoText, color |-> "", info |-> "", updated |-> FALSE]

IdleCalc ==
    /\ widget = Widget("", "", {}, FALSE, FALSE, FALSE, FALSE)
    /\ calcInits = 0
    /\ window = <<>>
    /\ calcValues = <<>>
    /\ calcDom = NoDisplay
    /\ calcTimers = 0
    /\ calcLog = [tick |-> 0, runs |-> 0, boundAtInit |-> FALSE]

InitCalc ==
    /\ widget \in Widgets
    /\ calcInits = 0
    /\ window = [name \in FormulaNames |-> "undefined"]
    /\ calcValues = [name \in widget.fields |-> <<>>]
    /\ calcDom = NoDisplay
    /\ calcTimers = 0
    /\ calcLog = [tick |-> 0, runs |-> 0, boundAtInit |-> FALSE]

InitializeCalculators ==
    /\ calcInits < MaxInits
    /\ calcInits' = calcInits + 1
    /\ calcLog' = [calcLog EXCEPT !.boundAtInit = Global(widget.calcFunction) # "undefined"]
    /\ UNCHANGED <<widget, window, calcValues, calcDom, calcTimers, notCalcVars>>

\* the listeners run on calculator state with the values `values`
RunCalculator(values) ==
    LET s == CalculatorListeners([dom |-> calcDom, timers |-> calcTimers],
                                 widget, values, calcInits)
    IN  /\ calcTimers + calcInits <= MaxCalcTimers
        /\ calcDom' = s.dom
        /\ calcTimers' = s.timers
        /\ calcLog' = [calcLog EXCEPT !.tick = 1 - @, !.runs = calcInits]

\* the user edits a field: an input event
TypeInput ==
    \E name \in widget.fields : \E str \in Typed(name) :
        /\ str # calcValues[name]
        /\ calcValues' = [calcValues EXCEPT ![name] = str]
        /\ RunCalculator(calcValues')
        /\ UNCHANGED <<widget, calcInits, window, notCalcVars>>

\* Enter in a field, or a click on the .calculator-btn
PressCalculate ==
    /\ calcInits >= 1
    /\ widget.fields # {} \/ widget.hasButton
    /\ RunCalculator(calcValues)
    /\ UNCHANGED <<widget, calcInits, window, calcValues, notCalcVars>>

RegisterCalculator ==
    \E name \in FormulaNames : \E func \in Formulas :
        /\ window' = [window EXCEPT ![name] = func]
        /\ UNCHANGED <<widget, calcInits, calcValues, calcDom, calcTimers, calcLog,
                       notCalcVars>>

\* the oldest pending callback removes the "updated" class
CalcTimerFires ==
    /\ calcTimers > 0
    /\ calcTimers' = calcTimers - 1
    /\ calcDom' = [calcDom EXCEPT !.updated = FALSE]
    /\ UNCHANGED <<widget, calcInits, window, calcValues, calcLog, notCalcVars>>

NextCalc ==
    \/ InitializeCalculators
    \/ TypeInput
    \/ PressCalculate
    \/ RegisterCalculator
    \/ CalcTimerFires

----------------------------------------------------------------------------
(* debounce(func, wait).  Time advances in ticks; a timer runs at the tick *)
(* it is due, and an invocation arriving at that same tick may run first.  *)

ClearTimeout_Nothing(pending, handle) == pending

\* clearTimeout(handle)
ClearTimeout(pending, handle) == {tm \in pending : tm.id # handle}

IdleDebounce ==
    /\ now = 0
    /\ timers = {}
    /\ timeout = 0
    /\ debLog = <<>>

InitDebounce == IdleDebounce

\* executedFunction(...args)
Invoke ==
    \E args \in 1..MaxArg :
        LET invoked == Len(SelectSeq(debLog, LAMBDA e : e.kind = "invoke"))
            id      == invoked + 1
        IN  /\ invoked < MaxInvocations
            /\ timers' = ClearTimeout(timers, timeout)
                             \cup {[id |-> id, due |-> now + Wait, args |-> args]}
            /\ timeout' = id
            /\ debLog' = Append(debLog, [kind |-> "invoke", time |-> now, args |-> args])
            /\ UNCHANGED <<now, notDebVars>>

\* a due timer runs `later`: clearTimeout(timeout); func(...args)
Later ==
    \E tm \in timers :
        /\ tm.due = now
        /\ timers' = ClearTimeout(timers \ {tm}, timeout)
        /\ debLog' = Append(debLog, [kind |-> "call", time |-> now, args |-> tm.args])
        /\ UNCHANGED <<now, timeout, notDebVars>>

Tick ==
    /\ now < MaxTime
    /\ \A tm \in timers : tm.due > now
    /\ now' = now + 1
    /\ UNCHANGED <<timers, timeout, debLog, notDebVars>>

NextDebounce ==
    \/ Invoke
    \/ Later
    \/ Tick

----------------------------------------------------------------------------
(* validateNumericInput(value, options) *)

ValueChars == {"-", "1", "5", ".", "a"}

RECURSIVE ValueStrings(_)
ValueStrings(n) ==
    IF n = 0 THEN {<<>>}
    ELSE LET shorter == ValueStrings(n - 1)
         IN  shorter \cup {Append(s, ch) : s \in shorter, ch \in ValueChars}

\* options, with the defaults min = -Infinity, max = Infinity filled in
OptionSets ==
    [min : {Infinity(-1), Whole(-1), Whole(2), Whole(10)},
     max : {Infinity(1), Whole(5), Whole(1)},
     allowNegative : BOOLEAN,
     allowDecimal : BOOLEAN]

Failure(error, bound) == [valid |-> FALSE, error |-> error, bound |-> bound, value |-> NaN]
Success(num) == [valid |-> TRUE, error |-> "", bound |-> NaN, value |-> num]

ValidateNumericInput_RangeFirst(value, options) ==
    LET num == ParseFloat(value)
    IN  IF IsNaN(num) THEN Failure("Please enter a valid number", NaN)
        ELSE IF Lt(num, options.min)
        THEN Failure("Value must be at least", options.min)
        ELSE IF Lt(options.max, num)
        THEN Failure("Value must be at most", options.max)
        ELSE IF ~options.allowNegative /\ Lt(num, Whole(0))
        THEN Failure("Negative values are not allowed", NaN)
        ELSE IF ~options.allowDecimal /\ ~IsInteger(num)
        THEN Failure("Please enter a whole number", NaN)
        ELSE Success(num)

ValidateNumericInput(value, options) ==
    LET num == ParseFloat(value)
    IN  IF IsNaN(num) THEN Failure("Please enter a valid number", NaN)
        ELSE IF ~options.allowNegative /\ Lt(num, Whole(0))
        THEN Failure("Negative values are not allowed", NaN)
        ELSE IF ~options.allowDecimal /\ ~IsInteger(num)
        THEN Failure("Please enter a whole number", NaN)
        ELSE IF Lt(num, options.min)
        THEN Failure("Value must be at least", options.min)
        ELSE IF Lt(options.max, num)
        THEN Failure("Value must be at most", options.max)
        ELSE Success(num)

IdleValidate ==
    /\ valInput = [value |-> <<>>,
                   options |-> [min |-> Infinity(-1), max |-> Infinity(1),
                                allowNegative |-> TRUE, allowDecimal |-> TRUE]]
    /\ valResult = <<>>

InitValidate ==
    /\ valInput \in [value : ValueStrings(MaxDigits), options : OptionSets]
    /\ valResult = <<>>

Validate ==
    /\ valResult = <<>>
    /\ valResult' = <<ValidateNumericInput(valInput.value, valInput.options)>>
    /\ UNCHANGED <<valInput, notValVars>>

NextValidate == Validate

----------------------------------------------------------------------------
(* The calculator formulas called directly (they are exported), on any     *)
(* three numbers.  calculateCompoundGrowth is exercised through its widget *)
(* in the calculator controller.                                          *)

InputNumbers ==
    {NaN, Infinity(1), Infinity(-1)}
        \cup {Fin(n, d) : n \in (-MaxNum)..MaxNum, d \in {1, 2}}
        \cup {Whole(42), Whole(90), Whole(95), Whole(99)}

\* the calls of the documented examples (the third argument of calculateROI is unused)
ExampleCalls ==
    {<<Whole(100), Whole(150), Whole(0)>>,
     <<Whole(100), Whole(50), Whole(0)>>,
     <<Whole(10000), Whole(95), Fin(2, 100)>>,
     <<Whole(10000), Whole(42), Fin(2, 100)>>}

NotCalled == [fn |-> "", result |-> Undefined]

IdleFormulas ==
    /\ fnArgs = <<Whole(0), Whole(0), Whole(0)>>
    /\ fnReturned = NotCalled

InitFormulas ==
    /\ fnArgs \in (InputNumbers \X InputNumbers \X InputNumbers) \cup ExampleCalls
    /\ fnReturned = NotCalled

\* calculateROI(initial, final)
CallROI ==
    /\ fnReturned = NotCalled
    /\ fnReturned' = [fn |-> "calculateROI", result |-> CalculateROI(fnArgs[1], fnArgs[2])]
    /\ UNCHANGED <<fnArgs, notFnVars>>

\* calculateSharpeRatio(returns, riskFree, stdDev)
CallSharpeRatio ==
    /\ fnReturned = NotCalled
    /\ fnReturned' = [fn |-> "calculateSharpeRatio",
                      result |-> CalculateSharpeRatio(fnArgs[1], fnArgs[2], fnArgs[3])]
    /\ UNCHANGED <<fnArgs, notFnVars>>

\* calculateVaR(value, confidence, volatility)
CallVaR ==
    /\ fnReturned = NotCalled
    /\ fnReturned' = [fn |-> "calculateVaR",
                      result |-> CalculateVaR(fnArgs[1], fnArgs[2], fnArgs[3])]
    /\ UNCHANGED <<fnArgs, notFnVars>>

NextFormulas ==
    \/ CallROI
    \/ CallSharpeRatio
    \/ CallVaR

----------------------------------------------------------------------------
(* Page load.  The script's top level runs once, at any stage of the       *)
(* document's loading; the document goes from "loading" to "interactive",  *)
(* dispatches DOMContentLoaded, and goes to "complete".  The controllers   *)
(* are kept as the listeners they attach: a user event on an element runs  *)
(* a handler only when its controller has attached one.                    *)

Controllers == {"copy", "quiz", "calculator"}

\* the calls initializeApp makes, in order
AppSequence ==
    <<"initializeCopyButtons", "initializeQuizzes", "initializeCalculators",
      "injectCopyButtonStyles">>

RECURSIVE InitializeApp(_, _)
InitializeApp(calls, n) == IF n = 0 THEN calls ELSE InitializeApp(calls \o AppSequence, n - 1)

\* the listeners each controller has attached after these calls
Attached(calls, kind) ==
    LET name == CASE kind = "copy" -> "initializeCopyButtons"
                  [] kind = "quiz" -> "initializeQuizzes"
                  [] kind = "calculator" -> "initializeCalculators"
    IN  Len(SelectSeq(calls, LAMBDA c : c = name))

StillLoading_Never(state) == FALSE

\* document.readyState === 'loading'
StillLoading(state) == state = "loading"

IdleApp ==
    /\ readyState = "complete"
    /\ scriptRun = FALSE
    /\ readyListeners = 0
    /\ signalled = FALSE
    /\ appCalls = <<>>
    /\ appClicks = [k \in Controllers |-> 0]
    /\ appRuns = [k \in Controllers |-> 0]

InitApp ==
    /\ readyState = "loading"
    /\ scriptRun = FALSE
    /\ readyListeners = 0
    /\ signalled = FALSE
    /\ appCalls = <<>>
    /\ appClicks = [k \in Controllers |-> 0]
    /\ appRuns = [k \in Controllers |-> 0]

\* the top level of the script
RunScript ==
    /\ ~scriptRun
    /\ scriptRun' = TRUE
    /\ IF StillLoading(readyState)
       THEN readyListeners' = readyListeners + 1 /\ UNCHANGED appCalls
       ELSE appCalls' = InitializeApp(appCalls, 1) /\ UNCHANGED readyListeners
    /\ UNCHANGED <<readyState, signalled, appClicks, appRuns, notAppVars>>

\* the parser has finished
DocumentParsed ==
    /\ readyState = "loading"
    /\ readyState' = "interactive"
    /\ UNCHANGED <<scriptRun, readyListeners, signalled, appCalls, appClicks, appRuns,
                   notAppVars>>

\* the document-ready signal runs the listeners registered for it
DOMContentLoaded ==
    /\ readyState = "interactive"
    /\ ~signalled
    /\ signalled' = TRUE
    /\ appCalls' = InitializeApp(appCalls, readyListeners)
    /\ UNCHANGED <<readyState, scriptRun, readyListeners, appClicks, appRuns, notAppVars>>

DocumentLoaded ==
    /\ readyState = "interactive"
    /\ signalled
    /\ readyState' = "complete"
    /\ UNCHANGED <<scriptRun, readyListeners, signalled, appCalls, appClicks, appRuns,
                   notAppVars>>

\* a click or input on an element of one kind runs the listeners attached to it
UserEvent ==
    \E kind \in Controllers :
        /\ appClicks[kind] < MaxClicks
        /\ appClicks' = [appClicks EXCEPT ![kind] = @ + 1]
        /\ appRuns' = [appRuns EXCEPT ![kind] = @ + Attached(appCalls, kind)]
        /\ UNCHANGED <<readyState, scriptRun, readyListeners, signalled, appCalls, notAppVars>>

NextApp ==
    \/ RunScript
    \/ DocumentParsed
    \/ DOMContentLoaded
    \/ DocumentLoaded
    \/ UserEvent

----------------------------------------------------------------------------
(* The text one copy activation handles.  The copy-button controller above *)
(* keeps the buttons, the in-flight set and the timers; this part follows  *)
(* copyCodeToClipboard and fallbackCopyToClipboard for the text they read, *)
(* hand to the clipboard and put into the temporary field.  While the      *)
(* write is pending, other activations and reverts may change the label of *)
(* the block's button.                                                     *)

ButtonLabels == {"Copy", "Copied!", "Failed"}

\* a .code-block with or without an element matching
\* 'pre code, .code-content pre, .code-content code', and its code text
CodeBlocks == [nested : BOOLEAN, code : StringsUpTo(MaxLen)]

\* codeBlock.textContent: the white space of the injected header, the
\* button's label between white space, then the code text
BlockTextContent(block, label) == <<" ", label, " ">> \o block.code

\* codeContent ? codeContent.textContent : codeBlock.textContent
TextToCopy(block, label) ==
    IF block.nested THEN block.code ELSE BlockTextContent(block, label)

NoField == [created |-> FALSE, value |-> <<>>, attached |-> FALSE]

\* textArea.value
FieldValue(block, label) == TextToCopy(block, label)

\* fallbackCopyToClipboard: the field is filled, appended and selected, the
\* copy command runs, the feedback is shown, the field is removed
FallbackText(outcome) ==
    LET value == FieldValue(txBlock, txLabel)
    IN  /\ txField' = [created |-> TRUE, value |-> value, attached |-> FALSE]
        /\ txClipboard' = IF outcome = "true" THEN <<value>> ELSE txClipboard
        /\ txLabel' = IF outcome = "throws" THEN "Failed"
                      ELSE IF txLabel = "Copied!" THEN txLabel ELSE "Copied!"
        /\ txPhase' = "done"

IdleText ==
    /\ txBlock = [nested |-> TRUE, code |-> <<>>]
    /\ txApi = TRUE
    /\ txLabel = "Copy"
    /\ txPhase = "idle"
    /\ txPrimary = <<>>
    /\ txField = NoField
    /\ txClipboard = <<>>

InitText ==
    /\ txBlock \in CodeBlocks
    /\ txApi \in BOOLEAN
    /\ txLabel \in ButtonLabels
    /\ txPhase = "idle"
    /\ txPrimary = <<>>
    /\ txField = NoField
    /\ txClipboard = <<>>

\* copyCodeToClipboard up to its await; without navigator.clipboard the
\* call throws and the fallback runs in the same turn
StartCopy ==
    /\ txPhase = "idle"
    /\ txPrimary' = <<Trim(TextToCopy(txBlock, txLabel))>>
    /\ IF txApi
       THEN /\ txPhase' = "pending"
            /\ UNCHANGED <<txField, txClipboard, txLabel>>
       ELSE \E outcome \in ExecOutcomes : FallbackText(outcome)
    /\ UNCHANGED <<txBlock, txApi, notTxVars>>

\* another activation's feedback, or a revert, changes the button's label
LabelChanges ==
    /\ txPhase = "pending"
    /\ \E label \in ButtonLabels \ {txLabel} : txLabel' = label
    /\ UNCHANGED <<txBlock, txApi, txPhase, txPrimary, txField, txClipboard, notTxVars>>

\* writeText fulfils; showCopySuccess
TextWritten ==
    /\ txPhase = "pending"
    /\ txClipboard' = txPrimary
    /\ txLabel' = "Copied!"
    /\ txPhase' = "done"
    /\ UNCHANGED <<txBlock, txApi, txPrimary, txField, notTxVars>>

\* writeText rejects; the catch block runs the fallback
TextRejected ==
    /\ txPhase = "pending"
    /\ \E outcome \in ExecOutcomes : FallbackText(outcome)
    /\ UNCHANGED <<txBlock, txApi, txPrimary, notTxVars>>

NextText ==
    \/ StartCopy
    \/ LabelChanges
    \/ TextWritten
    \/ TextRejected

----------------------------------------------------------------------------
(* Specifications: one controller runs, the others keep their idle state. *)

InitSpecQuiz ==
    InitQuiz /\ IdleCopy /\ IdleCalc /\ IdleDebounce /\ IdleValidate /\ IdleFormulas /\ IdleApp
        /\ IdleText
SpecQuiz == InitSpecQuiz /\ [][NextQuiz]_vars

InitSpecCopy ==
    InitCopy /\ IdleQuiz /\ IdleCalc /\ IdleDebounce /\ IdleValidate /\ IdleFormulas /\ IdleApp
        /\ IdleText
SpecCopy == InitSpecCopy /\ [][NextCopy]_vars

InitSpecCalc ==
    InitCalc /\ IdleQuiz /\ IdleCopy /\ IdleDebounce /\ IdleValidate /\ IdleFormulas /\ IdleApp
        /\ IdleText
SpecCalc == InitSpecCalc /\ [][NextCalc]_vars

InitSpecDebounce ==
    InitDebounce /\ IdleQuiz /\ IdleCopy /\ IdleCalc /\ IdleValidate /\ IdleFormulas /\ IdleApp
        /\ IdleText
SpecDebounce == InitSpecDebounce /\ [][NextDebounce]_vars

InitSpecValidate ==
    InitValidate /\ IdleQuiz /\ IdleCopy /\ IdleCalc /\ IdleDebounce /\ IdleFormulas /\ IdleApp
        /\ IdleText
SpecValidate == InitSpecValidate /\ [][NextValidate]_vars

InitSpecFormulas ==
    InitFormulas /\ IdleQuiz /\ IdleCopy /\ IdleCalc /\ IdleDebounce /\ IdleValidate /\ IdleApp
        /\ IdleText
SpecFormulas == InitSpecFormulas /\ [][NextFormulas]_vars

InitSpecApp ==
    InitApp /\ IdleQuiz /\ IdleCopy /\ IdleCalc /\ IdleDebounce /\ IdleValidate /\ IdleFormulas
        /\ IdleText
SpecApp == InitSpecApp /\ [][NextApp]_vars

InitSpecText ==
    InitText /\ IdleQuiz /\ IdleCopy /\ IdleCalc /\ IdleDebounce /\ IdleValidate /\ IdleFormulas
        /\ IdleApp
SpecText == InitSpecText /\ [][NextText]_vars

----------------------------------------------------------------------------
(* Claims about the quiz controller (checked under SpecQuiz). *)

\* the question identifier handleQuizAnswer resolves for option i of container c
QuestionOf(c, i) ==
    IF page[c].options[i].group # "" THEN page[c].options[i].group ELSE "default"

\* the question of option i of container c has been counted in its score record
OptionAnswered(c, i) ==
    /\ quizDom[c].quizId \in DOMAIN quizScores
    /\ QuestionOf(c, i) \in quizScores[quizDom[c].quizId].answered

\* the gradable elements of container c: options that carry a correctness
\* flag plus text inputs that carry an expected answer
GradableElements(c) ==
    Len(SelectSeq(page[c].options, LAMBDA o : o.correct \in {"true", "false"}))
        + Len(SelectSeq(page[c].inputs, LAMBDA t : t.hasAnswer))

\* C1: in every score record correct <= total, and no question identifier
\* has incremented total, or correct, more than once, however many answer
\* events named it.
C1_CountedOncePerQuestion ==
    /\ \A q \in DOMAIN quizScores : quizScores[q].correct <= quizScores[q].total
    /\ \A k \in DOMAIN quizLog.incTotal : quizLog.incTotal[k] <= 1
    /\ \A k \in DOMAIN quizLog.incCorrect : quizLog.incCorrect[k] <= 1

\* a question identifier has been named by several answer events and counted once
C1_Witness ==
    \E k \in DOMAIN quizLog.updCalls :
        /\ quizLog.updCalls[k] >= 2
        /\ CountOf(quizLog.incTotal, k) = 1
        /\ CountOf(quizLog.incCorrect, k) = 1

C3_AnswerIsFinal ==
    [][ /\ \A c \in Containers : \A i \in OptionsOf(c) :
              OptionAnswered(c, i) =>
                  /\ quizDom[c].optPointer[i] = "none"
                  /\ quizDom'[c].optPointer[i] = "none"
                  /\ quizDom'[c].optClass[i] = quizDom[c].optClass[i]
        /\ \A c \in Containers :
              quizDom[c].inputClass # {} =>
                  /\ quizDom[c].inputDisabled /\ quizDom'[c].inputDisabled
                  /\ page[c].hasSubmit => quizDom'[c].submitDisabled
                  /\ quizDom'[c].inputClass = quizDom[c].inputClass
        /\ \A k \in DOMAIN quizLog.incTotal :
              /\ quizLog'.incTotal[k] = quizLog.incTotal[k]
              /\ CountOf(quizLog'.incCorrect, k) = CountOf(quizLog.incCorrect, k)
      ]_vars

\* C7: a text answer is graded correct exactly when the trimmed, lower-cased
\* submitted value equals the trimmed, lower-cased expected value.
C7_GradingTrimsBoth ==
    quizLog.lastGrade # <<>> =>
        LET g == quizLog.lastGrade[1]
        IN  g.isCorrect <=> ToLowerCase(Trim(g.user)) = ToLowerCase(Trim(g.expected))

\* C12: whatever answer events and completion checks have run, no quiz
\* container holds more than one celebration panel.
C12_OneCelebrationPanel ==
    \A c \in Containers : quizDom[c].celebration <= 1

\* one click ran two listeners, each of which found the quiz complete and
\* showed the celebration; the container holds one panel
C12_Witness ==
    /\ page = PageTwo
    /\ quizLog.lastCheck = <<[quizId |-> "quiz-0", fired |-> TRUE]>>
    /\ CountOf(quizLog.updCalls, <<"quiz-0", "q1">>) = 2
    /\ quizDom[1].celebration = 1

\* C13: an option marked selected and incorrect has, when its question holds
\* an option flagged correct, such an option of the same question marked
\* correct; and when an option is marked selected and correct, no option of
\* its question is marked incorrect.
C13_AnswerRevealsRightOption ==
    \A c \in Containers : \A i \in OptionsOf(c) :
        LET same  == {j \in OptionsOf(c) : QuestionOf(c, j) = QuestionOf(c, i)}
            right == {j \in same : page[c].options[j].correct = "true"}
        IN  /\ ({"selected", "incorrect"} \subseteq quizDom[c].optClass[i] /\ right # {}) =>
                  \E j \in right : "correct" \in quizDom[c].optClass[j]
            /\ {"selected", "correct"} \subseteq quizDom[c].optClass[i] =>
                  \A j \in same : "incorrect" \notin quizDom[c].optClass[j]

\* the question identifiers of container c: those of its options, and that
\* of its text input when the input carries an expected answer
QuestionsOf(c) ==
    {QuestionOf(c, i) : i \in OptionsOf(c)}
        \cup (IF page[c].inputs # <<>> /\ page[c].inputs[1].hasAnswer
                  /\ page[c].inputs[1].answer # <<>>
              THEN {IF page[c].inputs[1].questionId # "" THEN page[c].inputs[1].questionId
                    ELSE "input-question"}
              ELSE {})

\* C19: a quiz whose questions have all been answered, each counted as
\* correct, shows its celebration panel.
C19_AllCorrectCelebrates ==
    \A c \in Containers :
        (/\ quizDom[c].quizId \in DOMAIN quizScores
         /\ QuestionsOf(c) # {}
         /\ quizScores[quizDom[c].quizId].answered = QuestionsOf(c)
         /\ quizScores[quizDom[c].quizId].correct = Cardinality(QuestionsOf(c)))
            => quizDom[c].celebration = 1

\* C20: an answer event changes the options of one question only: in every
\* step, each container has a question such that the markers and the
\* pointer interaction of the options of all its other questions stay as
\* they are.
C20_AnswerTouchesOneQuestion ==
    [][ \A c \in Containers :
            \E q \in {QuestionOf(c, i) : i \in OptionsOf(c)} \cup {""} :
                \A j \in OptionsOf(c) :
                    QuestionOf(c, j) # q =>
                        /\ quizDom'[c].optClass[j] = quizDom[c].optClass[j]
                        /\ quizDom'[c].optPointer[j] = quizDom[c].optPointer[j]
      ]_vars

\* total and correct summed over the score records q of a set
RECURSIVE SumScores(_, _, _)
SumScores(scores, ids, field) ==
    IF ids = {} THEN 0
    ELSE LET q == CHOOSE x \in ids : TRUE
         IN  scores[q][field] + SumScores(scores, ids \ {q}, field)

\* C22: a call of initializeQuizzes leaves every existing score record as it
\* is, and an answer event on elements that carry duplicate listeners
\* raises total by at most 1 and correct by at most 1.
C22_ReinitKeepsScores ==
    [][ /\ quizInits' # quizInits =>
              \A q \in DOMAIN quizScores :
                  q \in DOMAIN quizScores' /\ quizScores'[q] = quizScores[q]
        /\ (quizInits' = quizInits /\ quizInits >= 2) =>
              /\ DOMAIN quizScores' = DOMAIN quizScores
              /\ SumScores(quizScores', DOMAIN quizScores, "total")
                     <= SumScores(quizScores, DOMAIN quizScores, "total") + 1
              /\ SumScores(quizScores', DOMAIN quizScores, "correct")
                     <= SumScores(quizScores, DOMAIN quizScores, "correct") + 1
      ]_vars

\* q1 was answered before the second initializeQuizzes and is still
\* counted; q2 was answered after it, by two listeners, and counted once
C22_Witness ==
    /\ page = PageGrouped
    /\ quizInits = 2
    /\ CountOf(quizLog.updCalls, <<"quiz-0", "q1">>) = 1
    /\ CountOf(quizLog.updCalls, <<"quiz-0", "q2">>) = 2
    /\ quizScores["quiz-0"].total = 2
    /\ quizScores["quiz-0"].answered = {"q1", "q2"}

\* C23: an answer event belongs to one quiz container, and leaves the score
\* record (total, correct, answered set), the score label and the
\* celebration of every other container as they are.
C23_QuizzesAreIndependent ==
    [][ quizInits' = quizInits =>
            \E c \in Containers :
                \A d \in Containers \ {c} :
                    /\ quizScores'[quizDom[d].quizId] = quizScores[quizDom[d].quizId]
                    /\ quizDom'[d].scoreLabel = quizDom[d].scoreLabel
                    /\ quizDom'[d].celebration = quizDom[d].celebration
      ]_vars

\* C24: in every score record total is the size of the answered set; no
\* step lowers total or correct or removes an identifier from the answered
\* set; and a step that adds no identifier to a record's answered set
\* leaves its total and correct as they are.
C24_ScoresOnlyGrow ==
    [][ /\ \A q \in DOMAIN quizScores' :
              quizScores'[q].total = Cardinality(quizScores'[q].answered)
        /\ \A q \in DOMAIN quizScores :
              /\ q \in DOMAIN quizScores'
              /\ quizScores'[q].total >= quizScores[q].total
              /\ quizScores'[q].correct >= quizScores[q].correct
              /\ quizScores[q].answered \subseteq quizScores'[q].answered
              /\ quizScores'[q].answered = quizScores[q].answered =>
                     /\ quizScores'[q].total = quizScores[q].total
                     /\ quizScores'[q].correct = quizScores[q].correct
      ]_vars

\* question q1 was answered wrongly, then its right option was clicked: the
\* record still holds the first outcome
C24_Witness ==
    /\ page = PageSplit
    /\ quizInits = 1
    /\ CountOf(quizLog.updCalls, <<"quiz-0", "q1">>) = 2
    /\ quizScores["quiz-0"] = [total |-> 1, correct |-> 0, answered |-> {"q1"}]
    /\ {"selected", "correct"} \subseteq quizDom[1].optClass[2]

----------------------------------------------------------------------------
(* Claims about the copy-button controller (checked under SpecCopy). *)

\* the deferred callbacks pending for button identifier id
PendingFor(id) == {k \in 1..Len(copyTimers) : copyTimers[k].buttonId = id}

\* C4: an activation that completes while its button's identifier is in the
\* in-flight set changes nothing: the button's label, class and colour, the
\* in-flight set and the pending callbacks stay as they are, and no button
\* identifier ever has more than one revert callback pending.
C4_ReactivationIsNoOp ==
    [][ /\ (copyLog' # copyLog /\ copyLog'.inSet) =>
              LET b == copyLog'.button
              IN  /\ copyBtns'[b].innerHTML = copyBtns[b].innerHTML
                  /\ copyBtns'[b].copied = copyBtns[b].copied
                  /\ copyBtns'[b].background = copyBtns[b].background
                  /\ copiedButtons' = copiedButtons
                  /\ copyTimers' = copyTimers
        /\ \A b \in Blocks :
              copyBtns[b].id # 0 => Cardinality(PendingFor(copyBtns[b].id)) <= 1
      ]_vars

\* C5: once no clipboard write and no deferred callback is pending, every
\* button shows its original label and colour, has no copied class and is
\* not in the in-flight set.
C5_CopiedStateReverts ==
    (copyTimers = <<>> /\ \A b \in Blocks : writesPending[b] = 0) =>
        \A b \in Blocks :
            copyBtns[b].present =>
                /\ Label(copyBtns[b].innerHTML) = "Copy"
                /\ ~copyBtns[b].copied
                /\ copyBtns[b].background = ""
                /\ copyBtns[b].id \notin copiedButtons

\* C8: when the fallback fails too (execCommand returns false or throws) the
\* button shows "Failed", its identifier is not added to the in-flight set
\* and a callback is set; when that callback runs the button shows the label
\* it had before the activation.
C8_FailureShowsFailedThenReverts ==
    [][ /\ (copyLog' # copyLog /\ copyLog'.outcome \in {"false", "throws"}) =>
              /\ Label(copyBtns'[copyLog'.button].innerHTML) = "Failed"
              /\ copiedButtons' = copiedButtons
              /\ Len(copyTimers') = Len(copyTimers) + 1
        /\ (copyTimers # <<>> /\ copyTimers' = Tail(copyTimers)
                /\ Head(copyTimers).kind = "failed") =>
              Label(copyBtns'[Head(copyTimers).button].innerHTML) = Head(copyTimers).before
      ]_vars

\* the clipboard writes pending in blocks 1..k
RECURSIVE SumPending(_)
SumPending(k) == IF k = 0 THEN 0 ELSE writesPending[k] + SumPending(k - 1)

----------------------------------------------------------------------------
(* Claims about the calculator controller (checked under SpecCalc). *)

\* the widget's type is no built-in one and it names no formula, or a name
\* under which nothing is registered
Unrecognized ==
    /\ widget.calcType \notin {"roi", "sharpe", "compound", "var"}
    /\ widget.calcFunction = "" \/ Global(widget.calcFunction) = "undefined"

ParsedInputs ==
    [name \in widget.fields |->
        IF IsNaN(ParseFloat(calcValues'[name])) THEN Whole(0)
        ELSE ParseFloat(calcValues'[name])]

\* C15: on a widget of a non-built-in type that names a formula, an event
\* that runs the handler while a function is registered under that name
\* shows that function's result for the parsed inputs (nothing when the
\* function returns no result), whether it was registered before or after
\* initializeCalculators; the function is the one registered last.
C15_FormulaIsLateBound ==
    [][ (/\ calcLog'.tick # calcLog.tick
         /\ calcInits >= 1
         /\ widget.calcType \notin {"roi", "sharpe", "compound", "var"}
         /\ widget.calcFunction \in DOMAIN window
         /\ window[widget.calcFunction] # "undefined"
         /\ widget.hasValue) =>
            IF window[widget.calcFunction] = "sum"
            THEN /\ calcDom'.text =
                       FormatNumber(Add(ParsedInputs["a"], ParsedInputs["b"]), 2)
                 /\ calcTimers' > calcTimers
            ELSE calcDom' = calcDom /\ calcTimers' = calcTimers
      ]_vars

\* a formula registered after initializeCalculators, replacing nothing at
\* that time, has been applied to the inputs 1 and -2
C15_Witness ==
    /\ widget.calcType = "custom" /\ widget.calcFunction = "f"
    /\ ~calcLog.boundAtInit
    /\ window["f"] = "sum"
    /\ calcLog.runs >= 1 /\ calcLog.tick = 1
    /\ calcValues = [a |-> <<"1">>, b |-> <<"-", "2">>]
    /\ calcDom.text = FormatNumber(Whole(-1), 2)

----------------------------------------------------------------------------
(* Claims about debounce (checked under SpecDebounce). *)

\* C6: a run of invocations, each within the quiet period of the one
\* before, gives exactly one call of the underlying function: a call always
\* directly follows the last invocation of its run, one quiet period after
\* it and with its arguments; invocations with no call between them are at
\* most one quiet period apart; and with no timer pending the last
\* invocation has had its call.
C6_OneCallPerBurst ==
    /\ \A k \in 1..Len(debLog) :
          debLog[k].kind = "call" =>
              /\ k > 1
              /\ debLog[k - 1].kind = "invoke"
              /\ debLog[k].args = debLog[k - 1].args
              /\ debLog[k].time = debLog[k - 1].time + Wait
    /\ \A k \in 2..Len(debLog) :
          (debLog[k].kind = "invoke" /\ debLog[k - 1].kind = "invoke") =>
              debLog[k].time - debLog[k - 1].time <= Wait
    /\ timers = {} => (debLog = <<>> \/ debLog[Len(debLog)].kind = "call")
    /\ Cardinality(timers) <= 1
    /\ \A tm \in timers :
          /\ debLog[Len(debLog)].kind = "invoke"
          /\ tm.due = debLog[Len(debLog)].time + Wait
          /\ tm.due >= now

\* three invocations with different arguments inside one quiet period, then the call
C6_Witness ==
    /\ Len(debLog) = 4
    /\ debLog[4].kind = "call"
    /\ debLog[1].args # debLog[3].args
    /\ debLog[2].args # debLog[3].args
    /\ debLog[1].time < debLog[2].time /\ debLog[2].time < debLog[3].time

----------------------------------------------------------------------------
(* Claims about validateNumericInput (checked under SpecValidate). *)

\* the five checks in the order the claim gives, each with whether it applies
ChecksInOrder(num, options) ==
    <<[applies |-> IsNaN(num), error |-> "Please enter a valid number"],
      [applies |-> ~options.allowNegative /\ Lt(num, Whole(0)),
       error |-> "Negative values are not allowed"],
      [applies |-> ~options.allowDecimal /\ ~IsNaN(num) /\ ~IsInteger(num),
       error |-> "Please enter a whole number"],
      [applies |-> Lt(num, options.min), error |-> "Value must be at least"],
      [applies |-> Lt(options.max, num), error |-> "Value must be at most"]>>

\* C10: the result is the failure of the first check that applies, in the
\* order not-a-number, negative, non-integer, below minimum, above maximum,
\* and success with the parsed number exactly when none applies.
C10_FirstApplicableCheck ==
    valResult # <<>> =>
        LET num     == ParseFloat(valInput.value)
            checks  == ChecksInOrder(num, valInput.options)
            failing == {k \in 1..5 : checks[k].applies}
            result  == valResult[1]
        IN  IF failing = {}
            THEN result.valid /\ result.value = num
            ELSE /\ ~result.valid
                 /\ \E k \in failing :
                       /\ \A j \in failing : k <= j
                       /\ result.error = checks[k].error

\* a negative, non-integer value below the minimum was refused as negative
C10_Witness ==
    /\ valResult # <<>>
    /\ valResult[1].error = "Negative values are not allowed"
    /\ ~valInput.options.allowDecimal
    /\ ~IsInteger(ParseFloat(valInput.value))
    /\ Lt(ParseFloat(valInput.value), valInput.options.min)

----------------------------------------------------------------------------
(* Claims about the calculator formulas (checked under SpecFormulas). *)

\* C11: calculateVaR returns value * volatility * z, z being 1.28, 1.645 or
\* 2.33 for confidence 90, 95 or 99 and 1.645 for any other confidence, and
\* its sign flag is false whatever the sign of the value.
C11_VaRValueAndSign ==
    fnReturned.fn = "calculateVaR" =>
        LET value      == fnArgs[1]
            confidence == fnArgs[2]
            volatility == fnArgs[3]
            z == IF confidence = Whole(90) THEN Fin(128, 100)
                 ELSE IF confidence = Whole(99) THEN Fin(233, 100)
                 ELSE Fin(1645, 1000)
        IN  /\ fnReturned.result.value = Mul(Mul(value, volatility), z)
            /\ fnReturned.result.isPositive = "false"

\* calculateVaR(10000, 42, 0.02) has returned 329
C11_Witness ==
    /\ fnReturned.fn = "calculateVaR"
    /\ fnArgs = <<Whole(10000), Whole(42), Fin(2, 100)>>
    /\ fnReturned.result.value = Whole(329)

\* the band an interpretation text names
Band(interpretation) ==
    CASE interpretation = "Poor - Returns below risk-free rate" -> "Poor"
      [] interpretation = "Acceptable - Moderate risk-adjusted returns" -> "Acceptable"
      [] interpretation = "Good - Strong risk-adjusted returns" -> "Good"
      [] interpretation = "Very Good - Excellent risk-adjusted returns" -> "Very Good"
      [] interpretation = "Exceptional - Outstanding risk-adjusted returns" -> "Exceptional"
      [] OTHER -> "none"

\* C14: calculateSharpeRatio returns (returns - riskFree) / stdDev, and the
\* band of its interpretation is one the ratio lies in: Poor below 0,
\* Acceptable in [0,1), Good in [1,2), Very Good in [2,3), Exceptional from 3;
\* a result in none of these ranges carries none of these bands.
C14_SharpeBandMatchesRatio ==
    fnReturned.fn = "calculateSharpeRatio" =>
        LET ratio == Div(Sub(fnArgs[1], fnArgs[2]), fnArgs[3])
            band  == Band(fnReturned.result.interpretation)
        IN  /\ fnReturned.result.value = ratio
            /\ band = "Poor" <=> Lt(ratio, Whole(0))
            /\ band = "Acceptable" <=> (Ge(ratio, Whole(0)) /\ Lt(ratio, Whole(1)))
            /\ band = "Good" <=> (Ge(ratio, Whole(1)) /\ Lt(ratio, Whole(2)))
            /\ band = "Very Good" <=> (Ge(ratio, Whole(2)) /\ Lt(ratio, Whole(3)))
            /\ band = "Exceptional" <=> Ge(ratio, Whole(3))

\* C18: calculateROI(initial, final) returns percent = (final - initial) /
\* initial * 100 with sign flag percent >= 0; calculateROI(100, 150) gives 50
\* and true, calculateROI(100, 50) gives -50 and false.
C18_ROIPercentAndSign ==
    fnReturned.fn = "calculateROI" =>
        LET initial == fnArgs[1]
            final   == fnArgs[2]
            percent == Mul(Div(Sub(final, initial), initial), Whole(100))
            result  == fnReturned.result
        IN  /\ result.value = percent
            /\ result.isPositive = "true" <=> Ge(percent, Whole(0))
            /\ result.isPositive \in {"true", "false"}
            /\ (initial = Whole(100) /\ final = Whole(150)) =>
                   (result.value = Whole(50) /\ result.isPositive = "true")
            /\ (initial = Whole(100) /\ final = Whole(50)) =>
                   (result.value = Whole(-50) /\ result.isPositive = "false")

\* calculateROI(100, 50) has returned -50 with the sign flag false
C18_Witness ==
    /\ fnReturned.fn = "calculateROI"
    /\ fnArgs[1] = Whole(100) /\ fnArgs[2] = Whole(50)
    /\ fnReturned.result.value = Whole(-50)
    /\ fnReturned.result.isPositive = "false"

----------------------------------------------------------------------------
(* Claims about page load (checked under SpecApp). *)

\* how many times initializeApp has run
Initializations == Len(SelectSeq(appCalls, LAMBDA c : c = "initializeCopyButtons"))

\* C17: initializeApp runs at most once, and exactly once as soon as the
\* script has run on an available document or the document-ready signal has
\* come after the script; never while the document is loading; it calls the
\* copy-button, quiz and calculator controllers in that order; and no
\* handler of a controller has run without it.
C17_InitializedOnceWhenReady ==
    /\ Initializations <= 1
    /\ readyState = "loading" => Initializations = 0
    /\ (scriptRun /\ readyState # "loading" /\ (readyListeners = 0 \/ signalled))
           => Initializations = 1
    /\ (scriptRun /\ readyListeners > 0 /\ ~signalled) => Initializations = 0
    /\ ~scriptRun => Initializations = 0
    /\ Initializations = 1 =>
           SubSeq(appCalls, 1, 3)
               = <<"initializeCopyButtons", "initializeQuizzes", "initializeCalculators">>
    /\ \A kind \in Controllers : appRuns[kind] > 0 => Initializations = 1

\* the script ran while the document was loading, the signal came, and
\* every kind of handler has run since; clicks made before were lost
C17_Witness ==
    /\ readyListeners = 1 /\ signalled
    /\ Initializations = 1
    /\ \A kind \in Controllers : appRuns[kind] = 1 /\ appClicks[kind] = 2

----------------------------------------------------------------------------
(* Claims about the copied text (checked under SpecText). *)

\* C21: when the fallback has run, the value filled into the temporary
\* field is the trimmed text the primary path computed for the clipboard
\* write, and the field is no longer in the document, whatever the copy
\* command did.
C21_FallbackCopiesSameText ==
    (txPhase = "done" /\ txField.created) =>
        /\ <<txField.value>> = txPrimary
        /\ ~txField.attached

====
